---- MODULE Spec2Model ----
(***************************************************************************)
(* In-process caching and admission control of the HAWA backend:           *)
(*   app/services/weather/ai_cache_service.py     AICacheService           *)
(*   app/services/weather/sheets_cache_service.py SheetsCacheService       *)
(*   app/core/rate_limit.py                       RateLimiter              *)
(*   app/main.py                                  rate_limit_middleware    *)
(*   app/core/config.py                           Settings, get_settings   *)
(*   app/services/weather/recommendation_service.py                        *)
(*                                  get_personalized_recommendation        *)
(*                                                                         *)
(* Time is the wall clock time.time(), counted in ticks of 1/TicksPerSec   *)
(* second.  A block of code that runs under "with self._lock" is one       *)
(* atomic step, during which the clock may advance from one time.time()    *)
(* read to the next; code outside a lock is a step of its own, and every   *)
(* read or write of shared state outside a lock is a step of its own, so   *)
(* the clock and other threads may move between two such steps.            *)
(*                                                                         *)
(* Spec analyses one cache instance, of class cls (the two classes keep    *)
(* the same fields: _cache, _last_cleanup, ttl_seconds, max_size);         *)
(* SweepSpec follows it over fewer keys and a longer time.                 *)
(* LimiterSpec analyses the two global limiters and the middleware,        *)
(* ConfigSpec the middleware while the environment's limits change, and    *)
(* RecommendSpec the recommendation path over the AI cache.                *)
(***************************************************************************)
EXTENDS Integers, Sequences, FiniteSets, TLC

\* ---------------------------------------------------------------- bounds
MaxTime == 2          \* Spec, ConcSpec, IsolationSpec, ConfigSpec: the clock stops after this many ticks
SweepMaxTime == 3     \* SweepSpec, RecommendSpec: the clock stops after this many ticks
LimiterMaxTime == 6   \* LimiterSpec: the clock stops after this many ticks
TicksPerSec == 2      \* clock resolution: ticks per second
AiMaxSize == 3        \* max_size of the AICacheService instance (1000 in the source)
SheetsMaxSize == 2    \* max_size of the SheetsCacheService instance (500 in the source)
CleanupSecs == 1      \* _cleanup_interval in seconds (60 in the source)
WindowSecs == 2       \* window_seconds of both limiters (60 in the source)
IotDefault == 2       \* constructor max_requests of iot_data_limiter (50 in the source)
AiDefault == 1        \* constructor max_requests of ai_recommendation_limiter (30)
NegLimits == 1        \* how many limits below 0 the environment can give

\* ------------------------------------------------------- program constants
ttl_seconds == 1

Ttl == ttl_seconds * TicksPerSec
cleanup_interval == CleanupSecs * TicksPerSec

Keys == {"a", "b", "c", "d"}
SheetKeys == {"a", "b", "c"}
RecKeys == {"a", "b"}
Values == {1, 2}
Threads == {"t1", "t2"}
Callers == {"t1"}     \* the threads that run get_cached_data in Spec
NoKey == "-"

AI == "AICacheService"
SHEETS == "SheetsCacheService"

VARIABLES
    now,            \* time.time(), in ticks
    cls,            \* the class of the cache instance under analysis
    cache,          \* self._cache
    last_cleanup,   \* self._last_cleanup
    pc,             \* per thread: its position in SheetsCacheService.get_cached_data
    call,           \* per thread: the locals of its call (cache_key, force_refresh, current_time, ...)
    touch,          \* history: the keys of _cache ordered by their last get-hit or put
    last,           \* history: the last completed cache operation and what it returned
    max_requests,   \* per limiter: self.max_requests
    requests,       \* per limiter: self._requests
    settings,       \* get_settings(): the two configured limits
    env,            \* os.environ: the two limits as the environment gives them now
    gate,           \* history: the last middleware evaluation
    chk,            \* history: the last limiter operation
    retry_due,      \* history: per limiter and key, the earliest retry time a denial promised
    lock            \* self._lock of the cache and of the limiter: who holds it

cacheVars == <<cls, cache, last_cleanup, pc, call, touch, last>>
limiterVars == <<max_requests, requests, settings, env, gate, chk>>
sideVars == <<retry_due, lock>>
vars == <<now, cls, cache, last_cleanup, pc, call, touch, last,
          max_requests, requests, settings, env, gate, chk, retry_due, lock>>

max_size == IF cls = AI THEN AiMaxSize ELSE SheetsMaxSize

\* ------------------------------------------------------- error messages
\* str(e) of an upstream exception, as a sequence of characters.
Msg429 == <<"4", "2", "9">>
MsgQuota == <<"Q", "u", "o", "t", "a", " ", "e", "x", "c", "e", "e", "d", "e", "d">>
MsgQuotaLower == <<"q", "u", "o", "t", "a", " ", "e", "x", "c", "e", "e", "d", "e", "d">>
MsgRateUpper == <<"R", "a", "t", "e", " ", "L", "i", "m", "i", "t">>
MsgTimeout == <<"t", "i", "m", "e", "o", "u", "t">>
Messages == {Msg429, MsgQuota, MsgQuotaLower, MsgRateUpper, MsgTimeout}
NoMsg == <<>>

UpperChars == <<"A", "B", "C", "D", "E", "F", "G", "H", "I", "J", "K", "L", "M",
                "N", "O", "P", "Q", "R", "S", "T", "U", "V", "W", "X", "Y", "Z">>
LowerChars == <<"a", "b", "c", "d", "e", "f", "g", "h", "i", "j", "k", "l", "m",
                "n", "o", "p", "q", "r", "s", "t", "u", "v", "w", "x", "y", "z">>

\* str.lower() on one character
LowerChar(ch) ==
    IF \E i \in 1..Len(UpperChars) : UpperChars[i] = ch
    THEN LowerChars[CHOOSE i \in 1..Len(UpperChars) : UpperChars[i] = ch]
    ELSE ch

\* str.lower()
Lower(s) == [i \in 1..Len(s) |-> LowerChar(s[i])]

\* sub in s
Contains(s, sub) ==
    \E i \in 1..(Len(s) - Len(sub) + 1) : SubSeq(s, i, i + Len(sub) - 1) = sub

\* the test of sheets_cache_service.py line 95
IsThrottled(m) ==
    \/ Contains(m, <<"4", "2", "9">>)
    \/ Contains(m, MsgQuota)
    \/ Contains(Lower(m), <<"r", "a", "t", "e", " ", "l", "i", "m", "i", "t">>)

\* ------------------------------------------------- OrderedDict operations
\* _cache is a sequence of entries, first = oldest position.
HasKey(c, k) == \E i \in 1..Len(c) : c[i].key = k
IndexOf(c, k) == CHOOSE i \in 1..Len(c) : c[i].key = k
Lookup(c, k) == c[IndexOf(c, k)]
KeysOf(c) == {c[i].key : i \in 1..Len(c)}
DelKey(c, k) == SelectSeq(c, LAMBDA e : e.key # k)
MoveToEnd(c, k) == Append(DelKey(c, k), Lookup(c, k))
\* d[k] = (v, ts): an existing key keeps its position
SetItem(c, k, v, ts) ==
    IF HasKey(c, k)
    THEN [c EXCEPT ![IndexOf(c, k)] = [key |-> k, val |-> v, ts |-> ts]]
    ELSE Append(c, [key |-> k, val |-> v, ts |-> ts])

\* "if len(self._cache) >= self.max_size: popitem(last=False)"
EvictIfFull(c) == IF Len(c) >= max_size THEN Tail(c) ELSE c

\* a faulty insert: it evicts only above max_size
PutEntryLate(c, k, v, ts) ==
    SetItem(IF Len(c) > max_size THEN Tail(c) ELSE c, k, v, ts)

\* a faulty insert: an entry with a newer timestamp is kept
PutEntryKeepsNewer(c, k, v, ts) ==
    IF HasKey(c, k) /\ Lookup(c, k).ts > ts THEN c ELSE SetItem(EvictIfFull(c), k, v, ts)

\* the insert of set_cached_recommendation / get_cached_data
PutEntry(c, k, v, ts) == SetItem(EvictIfFull(c), k, v, ts)

IsExpired(e, t) == t - e.ts >= Ttl

\* a faulty cleanup_expired: an entry exactly ttl old is kept
CleanupExpiredKeepsBoundary(c, t) == SelectSeq(c, LAMBDA e : ~(t - e.ts > Ttl))

\* cleanup_expired
CleanupExpired(c, t) == SelectSeq(c, LAMBDA e : ~IsExpired(e, t))

\* _periodic_cleanup, when it runs wholly under the caller's lock (AICacheService)
PeriodicDue(lc, t) == ~(t - lc < cleanup_interval)


\* ---------------------------------------------------------------- history
\* touch after an operation that left the cache as c2 and touched key k
\* (k = NoKey: nothing was touched)
Touched(tch, c2, k) ==
    LET rest == SelectSeq(tch, LAMBDA x : x # k /\ HasKey(c2, x))
    IN IF k # NoKey /\ HasKey(c2, k) THEN Append(rest, k) ELSE rest

NoEntry == [present |-> FALSE, val |-> 0, ts |-> 0]
EntryOf(c, k) ==
    IF HasKey(c, k)
    THEN [present |-> TRUE, val |-> Lookup(c, k).val, ts |-> Lookup(c, k).ts]
    ELSE NoEntry

\* The last completed cache operation.  op: the operation; key, force: its
\* arguments; res: "hit" | "miss" | "stored" | "stale" | "raised" | "-"; val: the
\* value returned; msg: the error raised; pre: the value of the key's entry when
\* the call began, if it had one older than ttl (get_cached_data; else NoVal);
\* seenPresent, seenAge: whether the fresh read found an entry for the key, and
\* that entry's age on the clock at that moment; existed, lenBefore: the key was
\* present / len(_cache) right before an insert; removed: the other keys the
\* operation removed; lru: the key least recently touched before an insert;
\* upstream: the upstream reads the call made; alone: no other thread's operation
\* changed the cache while the call ran; missed: the value of the entry that the
\* fresh read of get_cached_data found expired and answered as absent; afterPut:
\* the value of the set_cached_recommendation of the same key that was the
\* operation right before this get (NoVal if there was none); regressed: the
\* insert replaced an entry of the key by one with an older timestamp.
\* None
NoVal == 0
NoLast == [op |-> "none", key |-> NoKey, force |-> FALSE, res |-> "-", val |-> NoVal,
           msg |-> NoMsg, pre |-> NoVal, seenPresent |-> FALSE, seenAge |-> 0,
           existed |-> FALSE, lenBefore |-> 0, removed |-> {}, lru |-> NoKey,
           upstream |-> 0, alone |-> TRUE, missed |-> NoVal, afterPut |-> NoVal,
           regressed |-> FALSE]

ReadRec(op, key, force, res, val, pre, seen) ==
    [NoLast EXCEPT !.op = op, !.key = key, !.force = force, !.res = res, !.val = val,
                   !.pre = pre, !.seenPresent = seen.present,
                   !.seenAge = IF seen.present THEN now - seen.ts ELSE 0]

PutRec(op, key, force, val, pre, c, c2, tch, upstream) ==
    [NoLast EXCEPT !.op = op, !.key = key, !.force = force, !.res = "stored",
                   !.val = val, !.pre = pre, !.existed = HasKey(c, key),
                   !.lenBefore = Len(c), !.removed = (KeysOf(c) \ KeysOf(c2)) \ {key},
                   !.lru = IF Len(tch) > 0 THEN Head(tch) ELSE NoKey,
                   !.upstream = upstream,
                   !.regressed = HasKey(c, key) /\ HasKey(c2, key)
                                 /\ Lookup(c, key).ts > Lookup(c2, key).ts]

FailRec(op, key, force, res, val, msg, pre, upstream, alone) ==
    [NoLast EXCEPT !.op = op, !.key = key, !.force = force, !.res = res, !.val = val,
                   !.msg = msg, !.pre = pre, !.upstream = upstream, !.alone = alone]

\* the value of k's entry if it has one that is older than ttl at time t
ExpiredValue(c, k, t) ==
    IF HasKey(c, k) /\ IsExpired(Lookup(c, k), t) THEN Lookup(c, k).val ELSE NoVal

\* cleanup_time: the local current_time of _periodic_cleanup (0 outside it)
IdleCall == [key |-> NoKey, force |-> FALSE, current_time |-> 0, ok |-> FALSE,
             raw |-> NoVal, msg |-> NoMsg, pre |-> NoVal, upstream |-> 0,
             alone |-> TRUE, missed |-> NoVal, cleanup_time |-> 0]

\* the calls in progress after another thread's operation changed the cache
Disturbed(c, c2) ==
    [t \in Threads |-> IF pc[t] # "idle" /\ c2 # c
                       THEN [call[t] EXCEPT !.alone = FALSE] ELSE call[t]]

\* ------------------------------------------------------------------ clock
Tick(horizon) ==
    /\ now < horizon
    /\ now' = now + 1
    /\ UNCHANGED <<cacheVars, limiterVars>>

\* --------------------------------------------------------- AICacheService
\* get_cached_recommendation, lines 61-74: the lookup, t the clock read of
\* line 65 (made only when the key is present)
AILookup(c, k, t) ==
    IF ~HasKey(c, k)
    THEN [cache |-> c, hit |-> FALSE, val |-> 0]
    ELSE IF t - Lookup(c, k).ts >= Ttl
         THEN [cache |-> DelKey(c, k), hit |-> FALSE, val |-> 0]
         ELSE [cache |-> MoveToEnd(c, k), hit |-> TRUE, val |-> Lookup(c, k).val]

\* a faulty lookup: an entry expires one tick early
AIGetResultExpiresEarly(c, lc, k, t_periodic, t_sweep, t_lookup) ==
    LET due == PeriodicDue(lc, t_periodic)
        c1 == IF due THEN CleanupExpired(c, t_sweep) ELSE c
        lc1 == IF due THEN t_periodic ELSE lc
        clock == IF HasKey(c1, k) THEN t_lookup ELSE IF due THEN t_sweep ELSE t_periodic
    IN IF ~HasKey(c1, k)
       THEN [cache |-> c1, lc |-> lc1, hit |-> FALSE, val |-> 0, clock |-> clock]
       ELSE IF t_lookup - Lookup(c1, k).ts >= Ttl - 1
            THEN [cache |-> DelKey(c1, k), lc |-> lc1, hit |-> FALSE, val |-> 0,
                  clock |-> clock]
            ELSE [cache |-> MoveToEnd(c1, k), lc |-> lc1, hit |-> TRUE,
                  val |-> Lookup(c1, k).val, clock |-> clock]

\* The locked block of get_cached_recommendation, lines 57-74:
\* _periodic_cleanup followed by the lookup.  The block reads the clock up to
\* three times: t_periodic at line 97 (the interval test, and the value
\* assigned to _last_cleanup at line 103), t_sweep at line 109 (the ages in
\* cleanup_expired, read only when the sweep runs) and t_lookup at line 65 (the
\* age of the looked-up entry, read only when the key is present).  clock: the
\* last of the reads the block made.
AIGetResult(c, lc, k, t_periodic, t_sweep, t_lookup) ==
    LET due == PeriodicDue(lc, t_periodic)
        c1 == IF due THEN CleanupExpired(c, t_sweep) ELSE c
        lc1 == IF due THEN t_periodic ELSE lc
        r == AILookup(c1, k, t_lookup)
    IN [cache |-> r.cache, lc |-> lc1, hit |-> r.hit, val |-> r.val,
        clock |-> IF HasKey(c1, k) THEN t_lookup
                  ELSE IF due THEN t_sweep ELSE t_periodic]

\* The values <<t_sweep, t_lookup>> that the later clock reads of the locked
\* block can return when the first read returned t_periodic: the clock does not
\* go back, it stops at horizon, and a read that the block does not make is
\* given the value of the read before it
AIClockReads(c, lc, k, t_periodic, horizon) ==
    LET due == PeriodicDue(lc, t_periodic)
        span == t_periodic..horizon
    IN {rd \in span \X span :
          /\ rd[1] <= rd[2]
          /\ ~due => rd[1] = t_periodic
          /\ ~HasKey(IF due THEN CleanupExpired(c, rd[1]) ELSE c, k) => rd[2] = rd[1]}

\* get_cached_recommendation(cache_key, force_refresh), as one step: the clock
\* may advance between the reads of the locked block (not beyond horizon), and
\* stands at the last read when the call returns
GetCachedRecommendation(k, force, horizon) ==
    /\ cls = AI
    /\ IF force
       THEN /\ last' = ReadRec("get", k, TRUE, "miss", NoVal, NoVal, NoEntry)
            /\ UNCHANGED <<now, cache, last_cleanup, touch>>
       ELSE \E rd \in AIClockReads(cache, last_cleanup, k, now, horizon) :
               LET r == AIGetResult(cache, last_cleanup, k, now, rd[1], rd[2])
                   seen == EntryOf(cache, k)
               IN /\ now' = r.clock
                  /\ cache' = r.cache
                  /\ last_cleanup' = r.lc
                  /\ touch' = Touched(touch, r.cache, IF r.hit THEN k ELSE NoKey)
                  /\ last' = [ReadRec("get", k, FALSE, IF r.hit THEN "hit" ELSE "miss",
                                      r.val, NoVal, seen)
                              EXCEPT !.seenAge = IF seen.present
                                                 THEN r.clock - seen.ts ELSE 0,
                                     !.removed = (KeysOf(cache) \ KeysOf(r.cache)) \ {k},
                                     !.afterPut = IF last.op = "put" /\ last.key = k
                                                  THEN last.val ELSE NoVal]
    /\ UNCHANGED <<cls, pc, call, limiterVars>>

\* set_cached_recommendation(cache_key, recommendation)
SetCachedRecommendation(k, v) ==
    /\ cls = AI
    /\ cache' = PutEntry(cache, k, v, now)
    /\ touch' = Touched(touch, cache', k)
    /\ last' = PutRec("put", k, FALSE, v, NoVal, cache, cache', touch, 0)
    /\ UNCHANGED <<now, cls, last_cleanup, pc, call, limiterVars>>

\* ------------------------------------- WeatherRecommendationService
\* groq_service.py lines 98-115: generate_recommendation catches every exception
\* and returns a dict with "error" and aqi_level "unknown" in place of raising
ErrorDict == 3

\* get_personalized_recommendation, lines 72-75: the lookup in the AI cache,
\* as one step (the clock as in GetCachedRecommendation)
RecBegin(t, k) ==
    /\ cls = AI
    /\ pc[t] = "idle"
    /\ \E rd \in AIClockReads(cache, last_cleanup, k, now, SweepMaxTime) :
          LET r == AIGetResult(cache, last_cleanup, k, now, rd[1], rd[2])
              seen == EntryOf(cache, k)
          IN /\ now' = r.clock
             /\ cache' = r.cache
             /\ last_cleanup' = r.lc
             /\ touch' = Touched(touch, r.cache, IF r.hit THEN k ELSE NoKey)
             /\ IF r.hit
                THEN /\ last' = [ReadRec("recommend", k, FALSE, "hit", r.val, NoVal,
                                         seen)
                                 EXCEPT !.seenAge = r.clock - seen.ts]
                     /\ UNCHANGED <<pc, call>>
                ELSE /\ pc' = [pc EXCEPT ![t] = "generate"]
                     /\ call' = [call EXCEPT ![t] =
                                    [IdleCall EXCEPT !.key = k, !.pre = seen.val]]
                     /\ last' = NoLast
    /\ UNCHANGED <<cls, limiterVars>>

\* The same lookup step by step, for the specifications that follow the lock.
\* get_cached_recommendation, line 59: _periodic_cleanup, lines 97-103, under
\* the lock taken at line 57
RecPeriodic(t, k) ==
    /\ cls = AI
    /\ pc[t] = "idle"
    /\ call' = [call EXCEPT ![t] =
                   [IdleCall EXCEPT !.key = k, !.pre = EntryOf(cache, k).val]]
    /\ IF PeriodicDue(last_cleanup, now)
       THEN /\ last_cleanup' = now
            /\ pc' = [pc EXCEPT ![t] = "rec_sweep"]
       ELSE /\ pc' = [pc EXCEPT ![t] = "rec_lookup"]
            /\ UNCHANGED last_cleanup
    /\ UNCHANGED <<now, cls, cache, touch, last, limiterVars>>

\* cleanup_expired, lines 109-115, inside its own "with self._lock:"
RecSweep(t) ==
    /\ pc[t] = "rec_sweep"
    /\ cache' = CleanupExpired(cache, now)
    /\ touch' = Touched(touch, cache', NoKey)
    /\ pc' = [pc EXCEPT ![t] = "rec_lookup"]
    /\ UNCHANGED <<now, cls, last_cleanup, call, last, limiterVars>>

\* get_cached_recommendation, lines 61-74, and lines 74-75 of
\* get_personalized_recommendation
RecLookup(t) ==
    /\ pc[t] = "rec_lookup"
    /\ LET k == call[t].key
           r == AILookup(cache, k, now)
       IN /\ cache' = r.cache
          /\ touch' = Touched(touch, r.cache, IF r.hit THEN k ELSE NoKey)
          /\ IF r.hit
             THEN /\ last' = ReadRec("recommend", k, FALSE, "hit", r.val, NoVal,
                                     EntryOf(cache, k))
                  /\ pc' = [pc EXCEPT ![t] = "idle"]
                  /\ call' = [call EXCEPT ![t] = IdleCall]
             ELSE /\ pc' = [pc EXCEPT ![t] = "generate"]
                  /\ last' = NoLast
                  /\ UNCHANGED call
    /\ UNCHANGED <<now, cls, last_cleanup, limiterVars>>

\* lines 91-97: groq_service.generate_recommendation (no lock is held); it
\* returns a recommendation, or the error dict when the LLM call raised
RecGenerate(t) ==
    /\ pc[t] = "generate"
    /\ \/ \E v \in Values :
            call' = [call EXCEPT ![t].ok = TRUE, ![t].raw = v, ![t].upstream = @ + 1]
       \/ \E m \in Messages :
            call' = [call EXCEPT ![t].ok = FALSE, ![t].raw = ErrorDict, ![t].msg = m,
                                 ![t].upstream = @ + 1]
    /\ pc' = [pc EXCEPT ![t] = "cache"]
    /\ UNCHANGED <<now, cls, cache, last_cleanup, touch, last, limiterVars>>

\* lines 109-111: set_cached_recommendation(cache_key, recommendation), return
RecStore(t) ==
    /\ pc[t] = "cache"
    /\ LET cl == call[t]
       IN /\ cache' = PutEntry(cache, cl.key, cl.raw, now)
          /\ touch' = Touched(touch, cache', cl.key)
          /\ last' = [PutRec("recommend", cl.key, FALSE, cl.raw, cl.pre, cache, cache',
                             touch, cl.upstream) EXCEPT !.msg = cl.msg]
    /\ pc' = [pc EXCEPT ![t] = "idle"]
    /\ call' = [call EXCEPT ![t] = IdleCall]
    /\ UNCHANGED <<now, cls, last_cleanup, limiterVars>>

\* ------------------------------------------------------ both cache classes
\* cleanup_expired(), called directly
CleanupExpiredCall ==
    /\ cache' = CleanupExpired(cache, now)
    /\ touch' = Touched(touch, cache', NoKey)
    /\ last' = [NoLast EXCEPT !.op = "cleanup", !.removed = KeysOf(cache) \ KeysOf(cache')]
    /\ call' = Disturbed(cache, cache')
    /\ UNCHANGED <<now, cls, last_cleanup, pc, limiterVars>>

\* clear() / clear_cache()
Clear ==
    /\ cache' = <<>>
    /\ touch' = <<>>
    /\ last' = [NoLast EXCEPT !.op = "clear", !.removed = KeysOf(cache)]
    /\ call' = Disturbed(cache, cache')
    /\ UNCHANGED <<now, cls, last_cleanup, pc, limiterVars>>

\* get_stats(): it reads _cache under the lock and changes nothing
GetStats ==
    /\ last' = [NoLast EXCEPT !.op = "stats"]
    /\ UNCHANGED <<now, cls, cache, last_cleanup, touch, pc, call, limiterVars>>

\* ----------------------------------------------------- SheetsCacheService
\* get_cached_data, lines 57-58: the key and current_time = time.time()
SheetsBegin(t, k, force) ==
    /\ cls = SHEETS
    /\ pc[t] = "idle"
    /\ pc' = [pc EXCEPT ![t] = "periodic"]
    /\ call' = [call EXCEPT ![t] = [IdleCall EXCEPT !.key = k, !.force = force,
                                       !.current_time = now,
                                       !.pre = ExpiredValue(cache, k, now)]]
    /\ last' = NoLast
    /\ UNCHANGED <<now, cls, cache, last_cleanup, touch, limiterVars>>

\* _periodic_cleanup runs with no lock held: its clock read, its test of
\* _last_cleanup and its assignment to _last_cleanup are steps of their own,
\* and another thread may run between any two of them.
\* line 102: current_time = time.time()
SheetsPeriodic(t) ==
    /\ pc[t] = "periodic"
    /\ call' = [call EXCEPT ![t].cleanup_time = now]
    /\ pc' = [pc EXCEPT ![t] = "interval"]
    /\ UNCHANGED <<now, cls, cache, last_cleanup, touch, last, limiterVars>>

\* lines 105-106: if current_time - self._last_cleanup < self._cleanup_interval:
\* return
SheetsInterval(t) ==
    /\ pc[t] = "interval"
    /\ IF call[t].cleanup_time - last_cleanup < cleanup_interval
       THEN /\ pc' = [pc EXCEPT ![t] = "check"]
            /\ call' = [call EXCEPT ![t].cleanup_time = 0]
       ELSE /\ pc' = [pc EXCEPT ![t] = "mark"]
            /\ UNCHANGED call
    /\ UNCHANGED <<now, cls, cache, last_cleanup, touch, last, limiterVars>>

\* line 108: self._last_cleanup = current_time
SheetsMark(t) ==
    /\ pc[t] = "mark"
    /\ last_cleanup' = call[t].cleanup_time
    /\ call' = [call EXCEPT ![t].cleanup_time = 0]
    /\ pc' = [pc EXCEPT ![t] = "sweep"]
    /\ UNCHANGED <<now, cls, cache, touch, last, limiterVars>>

\* _periodic_cleanup, line 109: cleanup_expired() under the lock
SheetsSweep(t) ==
    /\ pc[t] = "sweep"
    /\ cache' = CleanupExpired(cache, now)
    /\ touch' = Touched(touch, cache', NoKey)
    /\ pc' = [pc EXCEPT ![t] = "check"]
    /\ UNCHANGED <<now, cls, last_cleanup, call, last, limiterVars>>

\* a faulty fresh read: it never answers from the cache
SheetsCheckResultNeverHits(c, k, force, current_time) ==
    [cache |-> c, hit |-> FALSE, val |-> 0]

\* the fresh read of lines 63-73, under the lock
SheetsCheckResult(c, k, force, current_time) ==
    IF ~force /\ HasKey(c, k)
    THEN IF current_time - Lookup(c, k).ts < Ttl
         THEN [cache |-> MoveToEnd(c, k), hit |-> TRUE, val |-> Lookup(c, k).val]
         ELSE [cache |-> DelKey(c, k), hit |-> FALSE, val |-> 0]
    ELSE [cache |-> c, hit |-> FALSE, val |-> 0]

SheetsCheck(t) ==
    /\ pc[t] = "check"
    /\ LET cl == call[t]
           r == SheetsCheckResult(cache, cl.key, cl.force, cl.current_time)
       IN /\ cache' = r.cache
          /\ touch' = Touched(touch, r.cache, IF r.hit THEN cl.key ELSE NoKey)
          /\ IF r.hit
             THEN /\ pc' = [pc EXCEPT ![t] = "idle"]
                  /\ call' = [call EXCEPT ![t] = IdleCall]
                  /\ last' = ReadRec("get_cached_data", cl.key, cl.force, "hit", r.val,
                                     cl.pre, EntryOf(cache, cl.key))
             ELSE /\ pc' = [pc EXCEPT ![t] = "fetch"]
                  /\ call' = [call EXCEPT ![t].missed =
                                 IF ~cl.force /\ HasKey(cache, cl.key)
                                 THEN Lookup(cache, cl.key).val ELSE NoVal]
                  /\ UNCHANGED last
    /\ UNCHANGED <<now, cls, last_cleanup, limiterVars>>

\* read_from_google_sheets, lines 77-80 (no lock is held): it returns or raises
SheetsFetch(t) ==
    /\ pc[t] = "fetch"
    /\ \/ \E v \in Values :
            /\ call' = [call EXCEPT ![t].ok = TRUE, ![t].raw = v,
                                    ![t].upstream = @ + 1]
            /\ pc' = [pc EXCEPT ![t] = "store"]
       \/ \E m \in Messages :
            /\ call' = [call EXCEPT ![t].ok = FALSE, ![t].msg = m,
                                    ![t].upstream = @ + 1]
            /\ pc' = [pc EXCEPT ![t] = "except"]
    /\ UNCHANGED <<now, cls, cache, last_cleanup, touch, last, limiterVars>>

\* lines 82-89: the insert under the lock, and the return
SheetsStore(t) ==
    /\ pc[t] = "store"
    /\ LET cl == call[t]
       IN /\ cache' = PutEntry(cache, cl.key, cl.raw, cl.current_time)
          /\ touch' = Touched(touch, cache', cl.key)
          /\ last' = PutRec("get_cached_data", cl.key, cl.force, cl.raw, cl.pre, cache,
                            cache', touch, cl.upstream)
    /\ pc' = [pc EXCEPT ![t] = "idle"]
    /\ call' = [call EXCEPT ![t] = IdleCall]
    /\ UNCHANGED <<now, cls, last_cleanup, limiterVars>>

\* a faulty except branch: any error falls back to the cache
FallbackServesAny(c, k, m) == HasKey(c, k)

\* lines 93-95: the except branch returns the cached value
FallbackServes(c, k, m) == HasKey(c, k) /\ IsThrottled(m)

\* lines 90-98: the except branch
SheetsExcept(t) ==
    /\ pc[t] = "except"
    /\ LET cl == call[t]
           serve == FallbackServes(cache, cl.key, cl.msg)
       IN last' = [FailRec("get_cached_data", cl.key, cl.force,
                           IF serve THEN "stale" ELSE "raised",
                           IF serve THEN Lookup(cache, cl.key).val ELSE 0,
                           cl.msg, cl.pre, cl.upstream, cl.alone)
                   EXCEPT !.missed = cl.missed]
    /\ pc' = [pc EXCEPT ![t] = "idle"]
    /\ call' = [call EXCEPT ![t] = IdleCall]
    /\ UNCHANGED <<now, cls, cache, last_cleanup, touch, limiterVars>>

\* ------------------------------------------------------------ RateLimiter
Limiters == {"iot", "ai"}
window_seconds == WindowSecs
Window == window_seconds * TicksPerSec

\* request.client.host, or no client at all
NoClient == "<no client>"
Hosts == {"10.0.0.1", NoClient}

\* main.py lines 131-132; a string is the sequence of its pieces
ClientKey(host) == <<"ip_", IF host = NoClient THEN "unknown" ELSE host>>
ClientKeys == {ClientKey(h) : h \in Hosts}
EmptyKey == <<>>

\* int(x) of a duration of n ticks: truncation toward zero, in seconds
IntSeconds(n) == IF n >= 0 THEN n \div TicksPerSec ELSE -((-n) \div TicksPerSec)

MinOf(q) == CHOOSE x \in {q[i] : i \in 1..Len(q)} : \A j \in 1..Len(q) : x <= q[j]

\* a faulty prune: nothing is ever dropped
PrunedNothing(q, t) == q

\* a faulty prune: a timestamp exactly window_seconds old is kept
PrunedKeepsBoundary(q, t) == SelectSeq(q, LAMBDA x : x >= t - Window)

\* the list comprehension of lines 50-53 and 79-82
Pruned(q, t) == SelectSeq(q, LAMBDA x : x > t - Window)

\* self._requests[key] of a defaultdict(list): a missing key is created empty
Touch(r, key) ==
    IF key \in DOMAIN r THEN r
    ELSE [k \in DOMAIN r \cup {key} |-> IF k = key THEN <<>> ELSE r[k]]

\* a faulty retry hint: it is taken from the newest timestamp
RetryAfterOfNewest(q, t) ==
    IF q # <<>>
    THEN IntSeconds(Window - (t - (CHOOSE x \in {q[i] : i \in 1..Len(q)} :
                                     \A y \in {q[i] : i \in 1..Len(q)} : x >= y))) + 1
    ELSE window_seconds

\* "retry_after = int(self.window_seconds - (now - oldest_request)) + 1"
RetryAfter(q, t) ==
    IF q # <<>> THEN IntSeconds(Window - (t - MinOf(q))) + 1 ELSE window_seconds

\* a faulty check_rate_limit: the limit test is off by one
CheckRateLimitOffByOne(r, maxr, key, t) ==
    LET r1 == IF key \in DOMAIN r THEN [r EXCEPT ![key] = Pruned(@, t)] ELSE r
        r2 == Touch(r1, key)
    IN IF Len(r2[key]) > maxr
       THEN [requests |-> r2, allowed |-> FALSE, retry_after |-> RetryAfter(r2[key], t)]
       ELSE [requests |-> [r2 EXCEPT ![key] = Append(@, t)], allowed |-> TRUE,
             retry_after |-> 0]

\* a faulty check_rate_limit: the retry hint lacks the "+ 1"
CheckRateLimitNoRoundUp(r, maxr, key, t) ==
    LET r1 == IF key \in DOMAIN r THEN [r EXCEPT ![key] = Pruned(@, t)] ELSE r
        r2 == Touch(r1, key)
    IN IF Len(r2[key]) >= maxr
       THEN [requests |-> r2, allowed |-> FALSE,
             retry_after |-> IF r2[key] # <<>>
                             THEN IntSeconds(Window - (t - MinOf(r2[key])))
                             ELSE window_seconds]
       ELSE [requests |-> [r2 EXCEPT ![key] = Append(@, t)], allowed |-> TRUE,
             retry_after |-> 0]

\* a faulty check_rate_limit: an allowed request is recorded under every key
CheckRateLimitAllKeys(r, maxr, key, t) ==
    LET r1 == IF key \in DOMAIN r THEN [r EXCEPT ![key] = Pruned(@, t)] ELSE r
        r2 == Touch(r1, key)
    IN IF Len(r2[key]) >= maxr
       THEN [requests |-> r2, allowed |-> FALSE, retry_after |-> RetryAfter(r2[key], t)]
       ELSE [requests |-> [k \in DOMAIN r2 |-> Append(r2[k], t)], allowed |-> TRUE,
             retry_after |-> 0]

\* check_rate_limit(key), lines 44-70, under self._lock
CheckRateLimit(r, maxr, key, t) ==
    LET r1 == IF key \in DOMAIN r THEN [r EXCEPT ![key] = Pruned(@, t)] ELSE r
        r2 == Touch(r1, key)
    IN IF Len(r2[key]) >= maxr
       THEN [requests |-> r2, allowed |-> FALSE, retry_after |-> RetryAfter(r2[key], t)]
       ELSE [requests |-> [r2 EXCEPT ![key] = Append(@, t)], allowed |-> TRUE,
             retry_after |-> 0]

Max(a, b) == IF a >= b THEN a ELSE b

\* get_remaining_requests(key), lines 74-84, under self._lock
GetRemaining(r, maxr, key, t) ==
    IF key \in DOMAIN r
    THEN [requests |-> [r EXCEPT ![key] = Pruned(@, t)],
          remaining |-> Max(0, maxr - Len(Pruned(r[key], t)))]
    ELSE [requests |-> r, remaining |-> maxr]

\* reset(key), lines 88-93, under self._lock; "if key:" is false for ""
ResetKeyResult(r, key) ==
    IF key # EmptyKey
    THEN [k \in DOMAIN r \ {key} |-> r[k]]
    ELSE <<>>

\* the timestamps recorded for key (0 for a key never seen)
Recorded(r, key) == IF key \in DOMAIN r THEN Len(r[key]) ELSE 0

\* the timestamps recorded for key that are newer than t - window
Live(r, key, t) ==
    IF key \in DOMAIN r
    THEN Cardinality({i \in 1..Len(r[key]) : r[key][i] > t - Window})
    ELSE 0

\* the timestamps recorded for key that are newer than t - window, in order
LiveStamps(r, key, t) ==
    IF key \in DOMAIN r THEN SelectSeq(r[key], LAMBDA x : x > t - Window) ELSE <<>>

\* the limit os.environ gives for limiter l
EnvLimit(e, l) ==
    IF l = "iot" THEN e.iot_data_rate_limit ELSE e.ai_recommendation_rate_limit

\* the timestamps recorded for key that lie in [t - window, t]
InWindow(r, key, t) ==
    IF key \in DOMAIN r
    THEN Cardinality({i \in 1..Len(r[key]) : r[key][i] >= t - Window /\ r[key][i] <= t})
    ELSE 0

\* The last limiter operation.  op: "check" | "remaining" | "reset" | "reset_all"; lim, key: the
\* limiter and the key; allowed, retry_after: what check_rate_limit returned;
\* maxr: max_requests during the call; lenBefore, lenAfter: the timestamps
\* recorded for the key before and after; winAfter: those of them inside the
\* window afterwards; remBefore, remAfter: what get_remaining_requests(key)
\* returns right before and right after; winBefore: the timestamps of the key
\* newer than now - window_seconds right before; oldestAge: the age in ticks of
\* the oldest timestamp a denied check found; cfg: the limit the environment
\* gives for the limiter at the moment of the call.
NoChk == [op |-> "none", lim |-> "-", key |-> EmptyKey, allowed |-> TRUE,
          retry_after |-> 0, maxr |-> 0, lenBefore |-> 0, lenAfter |-> 0,
          winAfter |-> 0, remBefore |-> 0, remAfter |-> 0, winBefore |-> 0,
          oldestAge |-> 0, cfg |-> 0]

ChkRec(op, l, key, maxr, r, res) ==
    [NoChk EXCEPT !.op = op, !.lim = l, !.key = key, !.allowed = res.allowed,
                  !.retry_after = res.retry_after, !.maxr = maxr,
                  !.lenBefore = Recorded(r, key),
                  !.lenAfter = Recorded(res.requests, key),
                  !.winAfter = InWindow(res.requests, key, now),
                  !.remBefore = GetRemaining(r, maxr, key, now).remaining,
                  !.remAfter = GetRemaining(res.requests, maxr, key, now).remaining,
                  !.winBefore = Live(r, key, now),
                  !.oldestAge = IF ~res.allowed /\ res.requests[key] # <<>>
                                THEN now - MinOf(res.requests[key]) ELSE 0,
                  !.cfg = EnvLimit(env, l)]

\* The last middleware evaluation.  class: the traffic class of the path;
\* checked: check_rate_limit was called; allowed: what it returned; forwarded:
\* call_next(request) ran; status, retry_after, limit, window, header: the
\* JSONResponse of a rejection.
NoGate == [key |-> EmptyKey, class |-> "-", checked |-> FALSE, allowed |-> TRUE,
           forwarded |-> FALSE, status |-> 0, retry_after |-> 0, limit |-> 0,
           window |-> 0, header |-> <<>>]

\* get_remaining_requests(key), called on a limiter
GetRemainingRequests(l, key) ==
    /\ LET res == GetRemaining(requests[l], max_requests[l], key, now)
       IN /\ requests' = [requests EXCEPT ![l] = res.requests]
          /\ chk' = [NoChk EXCEPT !.op = "remaining", !.lim = l, !.key = key,
                                  !.maxr = max_requests[l],
                                  !.lenBefore = Recorded(requests[l], key),
                                  !.lenAfter = Recorded(res.requests, key),
                                  !.winAfter = InWindow(res.requests, key, now),
                                  !.remAfter = res.remaining,
                                  !.winBefore = Live(requests[l], key, now)]
    /\ gate' = NoGate
    /\ UNCHANGED <<now, cacheVars, max_requests, settings, env>>

\* reset(key)
ResetKey(l, key) ==
    /\ requests' = [requests EXCEPT ![l] = ResetKeyResult(@, key)]
    /\ chk' = [NoChk EXCEPT !.op = "reset", !.lim = l, !.key = key]
    /\ gate' = NoGate
    /\ UNCHANGED <<now, cacheVars, max_requests, settings, env>>

\* reset()
ResetAll(l) ==
    /\ requests' = [requests EXCEPT ![l] = <<>>]
    /\ chk' = [NoChk EXCEPT !.op = "reset_all", !.lim = l]
    /\ gate' = NoGate
    /\ UNCHANGED <<now, cacheVars, max_requests, settings, env>>

\* --------------------------------------------------------------- config
\* The operator changes IOT_DATA_RATE_LIMIT / AI_RECOMMENDATION_RATE_LIMIT while
\* the process runs.  Settings reads os.getenv in its class body (config.py lines
\* 17-18, at import) and get_settings is lru_cached (lines 25-27): the settings
\* object the middleware reads keeps the limits of the moment of import.
SetEnv(l, n) ==
    /\ n # EnvLimit(env, l)
    /\ env' = IF l = "iot" THEN [env EXCEPT !.iot_data_rate_limit = n]
                           ELSE [env EXCEPT !.ai_recommendation_rate_limit = n]
    /\ UNCHANGED <<now, cacheVars, max_requests, requests, settings, gate, chk>>

\* ------------------------------------------------- rate_limit_middleware
\* request.url.path, as the sequence of its pieces
PRecommendation == <<"/weather", "/recommendation">>
PHeatmap == <<"/weather", "/heatmap">>
PSpreadsheet == <<"/admin", "/spreadsheet">>
PRealtime == <<"/weather", "/realtime">>
Paths == {<<"/health">>, <<"/feedback">>,
          <<"/auth", "/weather", "/recommendation">>,
          <<"/api", "/weather", "/recommendation", "/weather", "/heatmap">>,
          PHeatmap, PSpreadsheet,
          <<"/api", "/weather", "/realtime", "/warnings">>}

StartsWith(s, pre) == Len(s) >= Len(pre) /\ SubSeq(s, 1, Len(pre)) = pre

\* line 120
Exempt(path) ==
    \/ path \in {<<"/health">>, <<"/docs">>, <<"/openapi.json">>, <<"/redoc">>}
    \/ StartsWith(path, <<"/auth">>)

\* lines 135 and 150: the limiter a path is checked against
ClassOf(path) ==
    IF Exempt(path) THEN "exempt"
    ELSE IF Contains(path, PRecommendation) THEN "ai"
    ELSE IF Contains(path, PHeatmap) \/ Contains(path, PSpreadsheet)
            \/ Contains(path, PRealtime) THEN "iot"
    ELSE "none"

\* a faulty middleware: only requests of a rate-limited class are forwarded
ForwardsClassifiedOnly(class, allowed) == class \in Limiters /\ allowed

\* a faulty middleware: a denied request is forwarded as well
ForwardsAlways(class, allowed) == TRUE

\* lines 137-147, 152-162, 164: call_next runs unless the check denied
Forwards(class, allowed) == ~(class \in Limiters /\ ~allowed)

\* str(n) of an int, as the sequence of its characters
DigitChars == <<"0", "1", "2", "3", "4", "5", "6", "7", "8", "9">>
RECURSIVE StrNat(_)
StrNat(n) ==
    IF n < 10 THEN <<DigitChars[n + 1]>>
    ELSE StrNat(n \div 10) \o <<DigitChars[(n % 10) + 1]>>
StrInt(n) == IF n < 0 THEN <<"-">> \o StrNat(-n) ELSE StrNat(n)

\* the number a Retry-After header value carries (delta-seconds: digits only);
\* -1 for a value that is not a sequence of digits
DigitValue(ch) == (CHOOSE i \in 1..Len(DigitChars) : DigitChars[i] = ch) - 1
IsDigits(s) ==
    /\ Len(s) >= 1
    /\ \A i \in 1..Len(s) : \E j \in 1..Len(DigitChars) : DigitChars[j] = s[i]
RECURSIVE DigitsValue(_)
DigitsValue(s) ==
    IF Len(s) = 0 THEN 0
    ELSE DigitsValue(SubSeq(s, 1, Len(s) - 1)) * 10 + DigitValue(s[Len(s)])
HeaderSeconds(s) == IF IsDigits(s) THEN DigitsValue(s) ELSE -1

\* a faulty rejection: the header carries the window, not the retry hint
GateRecHeaderOfWindow(path, host, class, checked, res, maxr) ==
    LET fwd == Forwards(class, res.allowed)
    IN [key |-> ClientKey(host), class |-> class, checked |-> checked,
        allowed |-> res.allowed, forwarded |-> fwd,
        status |-> IF fwd THEN 0 ELSE 429,
        retry_after |-> IF fwd THEN 0 ELSE res.retry_after,
        limit |-> IF fwd THEN 0 ELSE maxr,
        window |-> IF fwd THEN 0 ELSE window_seconds,
        header |-> IF fwd THEN <<>> ELSE StrInt(window_seconds + 1)]

\* lines 138-147 and 153-162: the JSONResponse of a rejection
GateRec(path, host, class, checked, res, maxr) ==
    LET fwd == Forwards(class, res.allowed)
    IN [key |-> ClientKey(host), class |-> class, checked |-> checked,
        allowed |-> res.allowed, forwarded |-> fwd,
        status |-> IF fwd THEN 0 ELSE 429,
        retry_after |-> IF fwd THEN 0 ELSE res.retry_after,
        limit |-> IF fwd THEN 0 ELSE maxr,
        window |-> IF fwd THEN 0 ELSE window_seconds,
        header |-> IF fwd THEN <<>> ELSE StrInt(res.retry_after)]

\* rate_limit_middleware(request, call_next), lines 117-164: it runs on the
\* event loop without awaiting anything before call_next
Gate(path, host) ==
    LET class == ClassOf(path)
        key == ClientKey(host)
        mr == [l \in Limiters |-> IF l = "iot" THEN settings.iot_data_rate_limit
                                   ELSE settings.ai_recommendation_rate_limit]
    IN /\ IF class = "exempt"
          THEN /\ gate' = GateRec(path, host, class, FALSE,
                                  [allowed |-> TRUE, retry_after |-> 0], 0)
               /\ chk' = NoChk
               /\ UNCHANGED <<max_requests, requests>>
          ELSE /\ max_requests' = mr
               /\ IF class \in Limiters
                  THEN LET res == CheckRateLimit(requests[class], mr[class], key, now)
                       IN /\ requests' = [requests EXCEPT ![class] = res.requests]
                          /\ chk' = ChkRec("check", class, key, mr[class],
                                           requests[class], res)
                          /\ gate' = GateRec(path, host, class, TRUE, res, mr[class])
                  ELSE /\ gate' = GateRec(path, host, class, FALSE,
                                          [allowed |-> TRUE, retry_after |-> 0], 0)
                       /\ chk' = NoChk
                       /\ UNCHANGED requests
       /\ UNCHANGED <<now, cacheVars, settings, env>>

\* ---------------------------------------------------------- retry times
\* Per limiter and key: set: a check was denied and none was allowed since;
\* at: the earliest of the times "denial time + retry_after" those denials
\* promised; maxr: max_requests at that denial; met: whether the allowed check
\* that ended the wait came exactly "at" that time.
NoDue == [set |-> FALSE, at |-> 0, maxr |-> 0, met |-> "no"]

\* retry_due after a middleware evaluation that left the records g and c at time t
DueAfter(d, g, c, t) ==
    IF ~g.checked THEN d
    ELSE LET old == d[c.lim][c.key]
             promised == t + c.retry_after * TicksPerSec
             new == IF c.allowed
                    THEN [NoDue EXCEPT !.met =
                            IF old.set /\ old.maxr = c.maxr /\ c.maxr >= 1
                                 /\ t = old.at
                            THEN "at" ELSE "no"]
                    ELSE IF old.set /\ old.maxr = c.maxr /\ old.at <= promised
                         THEN old
                         ELSE [set |-> TRUE, at |-> promised, maxr |-> c.maxr,
                               met |-> "no"]
         IN [d EXCEPT ![c.lim][c.key] = new]

\* the cache lock (threading.RLock: owner and depth) and the holder of the
\* limiters' lock (threading.Lock)
NoThread == "-"
FreeLock == [owner |-> NoThread, depth |-> 0, limiter |-> NoThread]

\* -------------------------------------------------------- specifications
\* rate_limit.py lines 98 and 101: the two global limiters
LimiterStart ==
    /\ max_requests = [l \in Limiters |-> IF l = "iot" THEN IotDefault ELSE AiDefault]
    /\ requests = [l \in Limiters |-> <<>>]
    /\ gate = NoGate
    /\ chk = NoChk
    /\ retry_due = [l \in Limiters |-> [k \in ClientKeys |-> NoDue]]

CacheStart ==
    /\ cache = <<>>
    /\ last_cleanup = 0
    /\ pc = [t \in Threads |-> "idle"]
    /\ call = [t \in Threads |-> IdleCall]
    /\ touch = <<>>
    /\ last = NoLast
    /\ lock = FreeLock

Init ==
    /\ now = 0
    /\ cls \in {AI, SHEETS}
    /\ CacheStart
    /\ LimiterStart
    /\ settings = [iot_data_rate_limit |-> IotDefault,
                   ai_recommendation_rate_limit |-> AiDefault]
    /\ env = settings

Next ==
    \/ Tick(MaxTime) /\ UNCHANGED sideVars
    \/ \E k \in Keys, force \in BOOLEAN :
          GetCachedRecommendation(k, force, MaxTime) /\ UNCHANGED sideVars
    \/ \E k \in Keys, v \in Values : SetCachedRecommendation(k, v) /\ UNCHANGED sideVars
    \/ CleanupExpiredCall /\ UNCHANGED sideVars
    \/ Clear /\ UNCHANGED sideVars
    \/ GetStats /\ UNCHANGED sideVars
    \/ \E t \in Callers, k \in SheetKeys, force \in BOOLEAN : SheetsBegin(t, k, force) /\ UNCHANGED sideVars
    \/ \E t \in Callers : SheetsPeriodic(t) /\ UNCHANGED sideVars
    \/ \E t \in Callers : SheetsInterval(t) /\ UNCHANGED sideVars
    \/ \E t \in Callers : SheetsMark(t) /\ UNCHANGED sideVars
    \/ \E t \in Callers : SheetsSweep(t) /\ UNCHANGED sideVars
    \/ \E t \in Callers : SheetsCheck(t) /\ UNCHANGED sideVars
    \/ \E t \in Callers : SheetsFetch(t) /\ UNCHANGED sideVars
    \/ \E t \in Callers : SheetsStore(t) /\ UNCHANGED sideVars
    \/ \E t \in Callers : SheetsExcept(t) /\ UNCHANGED sideVars

Spec == Init /\ [][Next]_vars

\* one cache instance over two keys, followed for longer than cleanup_interval
\* and ttl, so that a sweep that is due can find the clock moved between its
\* reads
SweepKeys == {"a", "b"}

SweepNext ==
    \/ Tick(SweepMaxTime) /\ UNCHANGED sideVars
    \/ \E k \in SweepKeys, force \in BOOLEAN :
          GetCachedRecommendation(k, force, SweepMaxTime) /\ UNCHANGED sideVars
    \/ \E k \in SweepKeys, v \in Values : SetCachedRecommendation(k, v) /\ UNCHANGED sideVars
    \/ CleanupExpiredCall /\ UNCHANGED sideVars
    \/ Clear /\ UNCHANGED sideVars
    \/ GetStats /\ UNCHANGED sideVars
    \/ \E t \in Callers, k \in SweepKeys, force \in BOOLEAN : SheetsBegin(t, k, force) /\ UNCHANGED sideVars
    \/ \E t \in Callers : SheetsPeriodic(t) /\ UNCHANGED sideVars
    \/ \E t \in Callers : SheetsInterval(t) /\ UNCHANGED sideVars
    \/ \E t \in Callers : SheetsMark(t) /\ UNCHANGED sideVars
    \/ \E t \in Callers : SheetsSweep(t) /\ UNCHANGED sideVars
    \/ \E t \in Callers : SheetsCheck(t) /\ UNCHANGED sideVars
    \/ \E t \in Callers : SheetsFetch(t) /\ UNCHANGED sideVars
    \/ \E t \in Callers : SheetsStore(t) /\ UNCHANGED sideVars
    \/ \E t \in Callers : SheetsExcept(t) /\ UNCHANGED sideVars

SweepSpec == Init /\ [][SweepNext]_vars

\* config.py lines 17-18: int(os.getenv(...)) of a variable nothing validates;
\* the limits the environment can give for a limiter of constructor limit d
ConfiguredLimits(d) == (0 - NegLimits)..d

\* the limits of get_settings() are read from the environment once per process
LimiterInit ==
    /\ now = 0
    /\ cls = AI
    /\ CacheStart
    /\ LimiterStart
    /\ settings \in [iot_data_rate_limit : ConfiguredLimits(IotDefault),
                     ai_recommendation_rate_limit : ConfiguredLimits(AiDefault)]
    /\ env = settings

\* LimiterSpec follows one client at a time: another client's requests begin
\* only when no window of the current one is left
SoleKey(key) == \A l \in Limiters : DOMAIN requests[l] \subseteq {key}

LimiterNext ==
    \/ Tick(LimiterMaxTime) /\ UNCHANGED sideVars
    \/ \E p \in Paths, h \in Hosts : SoleKey(ClientKey(h)) /\ Gate(p, h) /\ UNCHANGED sideVars
    \/ \E l \in Limiters, k \in ClientKeys : SoleKey(k) /\ GetRemainingRequests(l, k) /\ UNCHANGED sideVars
    \/ \E l \in Limiters, k \in ClientKeys \cup {EmptyKey} : ResetKey(l, k) /\ UNCHANGED sideVars
    \/ \E l \in Limiters : ResetAll(l) /\ UNCHANGED sideVars

LimiterSpec == LimiterInit /\ [][LimiterNext]_vars

\* ------------------------------------------------------------ the locks
\* a faulty lock: a plain threading.Lock in place of the RLock
CanAcquireNonReentrant(l, t) == l.owner = NoThread

\* threading.RLock.acquire: free, or held by the same thread
CanAcquire(l, t) == l.owner \in {NoThread, t}

Acquired(l, t) == [l EXCEPT !.owner = t, !.depth = @ + 1]

\* a faulty block end: the lock is kept
WithExitKeepsLock(l) == l

\* the end of a "with self._lock:" block
WithExit(l) ==
    IF l.depth > 1
    THEN [l EXCEPT !.depth = @ - 1]
    ELSE [l EXCEPT !.owner = NoThread, !.depth = 0]

\* thread t is inside the outermost "with self._lock:" block
Holding(t) == lock.owner = t /\ lock.depth = 1

\* thread t holds no lock
Unlocked(t) == lock.owner # t /\ lock.limiter # t

\* the positions at which a thread enters a "with self._lock:" block of the
\* cache: the start of a call that begins with one (idle) and the blocks inside
\* get_cached_data and get_personalized_recommendation
AtLock(t) == pc[t] \in {"idle", "sweep", "check", "store", "except", "cache"}

\* "with self._lock:" entered
LockAcquire(t) ==
    /\ AtLock(t)
    /\ lock.limiter # t
    /\ lock.depth = 0
    /\ CanAcquire(lock, t)
    /\ lock' = Acquired(lock, t)
    /\ UNCHANGED <<now, cacheVars, limiterVars, retry_due>>

\* ai_cache_service.py line 108: cleanup_expired, called by _periodic_cleanup
\* inside the "with self._lock:" of get_cached_recommendation, enters
\* "with self._lock:"
LockReenter(t) ==
    /\ pc[t] = "rec_sweep"
    /\ Holding(t)
    /\ CanAcquire(lock, t)
    /\ lock' = Acquired(lock, t)
    /\ UNCHANGED <<now, cacheVars, limiterVars, retry_due>>

\* check_rate_limit, get_remaining_requests, reset: "with self._lock:" entered
\* (threading.Lock of the limiter the thread's request is checked against)
LimiterAcquire(t) ==
    /\ pc[t] = "idle"
    /\ Unlocked(t)
    /\ lock.limiter = NoThread
    /\ lock' = [lock EXCEPT !.limiter = t]
    /\ UNCHANGED <<now, cacheVars, limiterVars, retry_due>>

\* the end of the limiter's "with self._lock:" block
LimiterExit(l) == [l EXCEPT !.limiter = NoThread]

\* the cache key, the error messages (None: no error), the request path and
\* the limiter of the concurrent specification
ConcKeys == {"a"}
ConcMessages == {NoMsg, Msg429}
ConcPath == IF cls = AI THEN PRecommendation ELSE PHeatmap
ConcLimiter == IF cls = AI THEN "ai" ELSE "iot"

\* the value the upstream returns to thread t
ReadBy(t) == IF t = "t1" THEN 1 ELSE 2

\* thread t starts a cache operation: get_cached_data, or one that begins
\* with "with self._lock:" (clear_cache, cleanup_expired, get_stats,
\* get_cached_recommendation)
Starts(t) ==
    \/ \E k \in ConcKeys : Unlocked(t) /\ SheetsBegin(t, k, FALSE) /\ UNCHANGED sideVars
    \/ pc[t] = "idle" /\ LockAcquire(t)

\* thread t, inside an operation, enters a "with self._lock:" block
Enters(t) == pc[t] # "idle" /\ LockAcquire(t)

\* thread t takes the next step of the operation it is in; the body of a
\* "with self._lock:" block runs in the step that leaves the block, except the
\* block of get_cached_recommendation, which takes a step at each of its clock
\* reads (RecPeriodic, RecSweep, RecLookup) and is left by the last
Proceeds(t) ==
    \/ LockReenter(t)
    \/ /\ lock.owner = t /\ lock.depth = 2
       /\ RecSweep(t) /\ lock' = WithExit(lock) /\ UNCHANGED retry_due
    \/ SheetsPeriodic(t) /\ UNCHANGED sideVars
    \/ SheetsInterval(t) /\ UNCHANGED sideVars
    \/ SheetsMark(t) /\ UNCHANGED sideVars
    \/ Holding(t) /\ SheetsSweep(t) /\ lock' = WithExit(lock) /\ UNCHANGED retry_due
    \/ Holding(t) /\ SheetsCheck(t) /\ lock' = WithExit(lock) /\ UNCHANGED retry_due
    \/ /\ SheetsFetch(t)
       /\ call'[t].msg \in ConcMessages
       /\ call'[t].raw \in {NoVal, ReadBy(t)}
       /\ UNCHANGED sideVars
    \/ Holding(t) /\ SheetsStore(t) /\ lock' = WithExit(lock) /\ UNCHANGED retry_due
    \/ Holding(t) /\ SheetsExcept(t) /\ lock' = WithExit(lock) /\ UNCHANGED retry_due
    \/ /\ cls = SHEETS /\ pc[t] = "idle" /\ Holding(t)
       /\ Clear /\ lock' = WithExit(lock) /\ UNCHANGED retry_due
    \/ /\ cls = SHEETS /\ pc[t] = "idle" /\ Holding(t)
       /\ CleanupExpiredCall /\ lock' = WithExit(lock) /\ UNCHANGED retry_due
    \/ /\ cls = SHEETS /\ pc[t] = "idle" /\ Holding(t)
       /\ GetStats /\ lock' = WithExit(lock) /\ UNCHANGED retry_due
    \/ \E k \in ConcKeys : Holding(t) /\ RecPeriodic(t, k) /\ UNCHANGED sideVars
    \/ Holding(t) /\ RecLookup(t) /\ lock' = WithExit(lock) /\ UNCHANGED retry_due
    \/ RecGenerate(t) /\ UNCHANGED sideVars
    \/ Holding(t) /\ RecStore(t) /\ lock' = WithExit(lock) /\ UNCHANGED retry_due
    \/ /\ lock.limiter = t
       /\ Gate(ConcPath, NoClient) /\ lock' = LimiterExit(lock) /\ UNCHANGED retry_due

\* thread t, holding the limiter's lock, runs get_remaining_requests or reset
LimiterQueries(t) ==
    \/ /\ lock.limiter = t
       /\ GetRemainingRequests(ConcLimiter, ClientKey(NoClient))
       /\ lock' = LimiterExit(lock) /\ UNCHANGED retry_due
    \/ /\ lock.limiter = t
       /\ ResetKey(ConcLimiter, ClientKey(NoClient))
       /\ lock' = LimiterExit(lock) /\ UNCHANGED retry_due

\* two threads calling the cache and the middleware
ConcNext ==
    \/ Tick(MaxTime) /\ UNCHANGED sideVars
    \/ \E t \in Threads : Starts(t)
    \/ \E t \in Threads : LimiterAcquire(t)
    \/ \E t \in Threads : Enters(t)
    \/ \E t \in Threads : Proceeds(t)

ConcSpec == Init /\ [][ConcNext]_vars

\* The same two threads once the process has run for cleanup_interval, so that
\* the next read finds the sweep due; the operations are followed at one
\* instant, the limiter operations on the recommendation path (middleware,
\* then AICacheService), the direct operations clear_cache, cleanup_expired and
\* get_stats on SheetsCacheService.  A thread inside an operation keeps being scheduled (WF), a thread
\* waiting at "with self._lock:" gets the lock if it is free again and again
\* (SF), and the upstream call returns or raises (it is one of the steps of
\* Proceeds).
FairInit ==
    /\ now = cleanup_interval
    /\ cls \in {AI, SHEETS}
    /\ CacheStart
    /\ LimiterStart
    /\ settings = [iot_data_rate_limit |-> IotDefault,
                   ai_recommendation_rate_limit |-> AiDefault]
    /\ env = settings

FairNext ==
    \/ \E t \in Threads : Starts(t)
    \/ \E t \in Threads : cls = AI /\ LimiterAcquire(t)
    \/ \E t \in Threads : Enters(t)
    \/ \E t \in Threads : Proceeds(t)
    \/ \E t \in Threads : LimiterQueries(t)

FairSpec ==
    /\ FairInit
    /\ [][FairNext]_vars
    /\ \A t \in Threads : WF_vars(Proceeds(t) \/ LimiterQueries(t))
    /\ \A t \in Threads : SF_vars(Enters(t))

\* the middleware serving two clients at once
IsolationNext ==
    \/ Tick(MaxTime) /\ UNCHANGED sideVars
    \/ \E p \in Paths, h \in Hosts : Gate(p, h) /\ UNCHANGED sideVars

IsolationSpec == LimiterInit /\ [][IsolationNext]_vars

\* the limiters serving one client, with the retry times that denials promise
\* kept in retry_due
RetryNext ==
    \/ Tick(LimiterMaxTime) /\ UNCHANGED sideVars
    \/ \E p \in Paths :
          /\ SoleKey(ClientKey(NoClient))
          /\ Gate(p, NoClient)
          /\ retry_due' = DueAfter(retry_due, gate', chk', now)
          /\ UNCHANGED lock
    \/ \E l \in Limiters :
          GetRemainingRequests(l, ClientKey(NoClient)) /\ UNCHANGED sideVars
    \/ \E l \in Limiters : ResetKey(l, ClientKey(NoClient)) /\ UNCHANGED sideVars

RetrySpec == LimiterInit /\ [][RetryNext]_vars

\* the middleware under a configuration that changes at runtime
ConfigNext ==
    \/ Tick(MaxTime) /\ UNCHANGED sideVars
    \/ \E p \in Paths, h \in Hosts : SoleKey(ClientKey(h)) /\ Gate(p, h) /\ UNCHANGED sideVars
    \/ \E l \in Limiters, n \in ConfiguredLimits(IotDefault) :
          (l = "ai" => n <= AiDefault) /\ SetEnv(l, n) /\ UNCHANGED sideVars

ConfigSpec == LimiterInit /\ [][ConfigNext]_vars

\* the recommendation path over the AICacheService instance
RecommendInit ==
    /\ now = 0
    /\ cls = AI
    /\ CacheStart
    /\ LimiterStart
    /\ settings = [iot_data_rate_limit |-> IotDefault,
                   ai_recommendation_rate_limit |-> AiDefault]
    /\ env = settings

RecommendNext ==
    \/ Tick(SweepMaxTime) /\ UNCHANGED sideVars
    \/ \E t \in Callers, k \in RecKeys : RecBegin(t, k) /\ UNCHANGED sideVars
    \/ \E t \in Callers : RecGenerate(t) /\ UNCHANGED sideVars
    \/ \E t \in Callers : RecStore(t) /\ UNCHANGED sideVars
    \/ Clear /\ UNCHANGED sideVars

RecommendSpec == RecommendInit /\ [][RecommendNext]_vars



\* C4: right after an allowed check_rate_limit(key), at most max_requests of the
\* key's recorded timestamps lie within the last window_seconds.
AllowedKeepsWindowWithinLimit ==
    (chk.op = "check" /\ chk.allowed) => chk.winAfter <= chk.maxr

\* C4 witness: an allowed check filled the window of a limit of two or more.
AllowedCheckFilledWindow ==
    /\ chk.op = "check"
    /\ chk.allowed
    /\ chk.maxr >= 2
    /\ chk.winAfter = chk.maxr

\* C6: a request of a rate-limited class whose check is denied gets the 429
\* response, and call_next is not invoked for it.
DeniedRequestShortCircuits ==
    (gate.class \in Limiters /\ gate.checked /\ ~gate.allowed)
    => (gate.status = 429 /\ ~gate.forwarded)

\* C6 witness: an IoT data request was rejected with 429.
IotRequestRejected ==
    /\ gate.class = "iot"
    /\ gate.checked
    /\ ~gate.allowed
    /\ gate.status = 429
    /\ ~gate.forwarded

\* C7: a denied check_rate_limit(key) records nothing: the key has as many
\* timestamps after it as before, and get_remaining_requests(key) returns the same
\* right before and right after.
DeniedCheckNotRecorded ==
    (chk.op = "check" /\ ~chk.allowed)
    => (chk.lenAfter = chk.lenBefore /\ chk.remAfter = chk.remBefore)

\* C10: a denied check_rate_limit returns a retry_after of at least 1.
RetryHintPositive ==
    (chk.op = "check" /\ ~chk.allowed) => chk.retry_after >= 1

\* C10 witness: a check was denied less than one second before the oldest
\* timestamp leaves the window, where the hint is exactly 1.
DeniedInLastSecond ==
    /\ chk.op = "check"
    /\ ~chk.allowed
    /\ chk.lenBefore >= 1
    /\ chk.retry_after = 1

\* C11: a check is allowed exactly when fewer than max_requests timestamps of the
\* key are newer than now - window_seconds (the first N of an empty window, and
\* again once the oldest is window_seconds old), and a check denied over N live
\* timestamps returns a retry_after r with remaining < r <= remaining + 1, where
\* remaining is the time until the oldest timestamp is window_seconds old.
SlidingWindowAllowDenyReallow ==
    chk.op = "check"
    => /\ chk.allowed <=> chk.winBefore < chk.maxr
       /\ (~chk.allowed /\ chk.winBefore >= 1)
          => /\ chk.retry_after * TicksPerSec > Window - chk.oldestAge
             /\ chk.retry_after * TicksPerSec <= Window - chk.oldestAge + TicksPerSec

\* C11 witness: a key that had used its whole limit of two is allowed again once
\* its oldest timestamp has left the window.
ReallowedAfterWindow ==
    /\ chk.op = "check"
    /\ chk.allowed
    /\ chk.maxr = IotDefault
    /\ chk.lenBefore = chk.maxr
    /\ chk.winBefore < chk.lenBefore

\* C12: a request whose path belongs to no traffic class (an exempt path, or a
\* path with none of the class substrings) is forwarded to call_next without a
\* limiter check, and the step leaves _requests of both limiters as it was.
UnclassifiedBypasses ==
    [][gate'.class \in {"exempt", "none"}
       => (gate'.forwarded /\ ~gate'.checked /\ requests' = requests)]_vars

\* C12 witness: an unclassified request was forwarded while a limiter held
\* recorded timestamps.
UnclassifiedForwardedOverWindow ==
    /\ gate.class = "none"
    /\ gate.forwarded
    /\ \E l \in Limiters : \E k \in DOMAIN requests[l] : requests[l][k] # <<>>

\* C13: when the generation of a recommendation fails with a throttling error,
\* get_personalized_recommendation returns the value the AI cache last held for
\* the key, and raises if the cache held none.
RecommendationDegradedFetch ==
    (last.op = "recommend" /\ last.msg # NoMsg /\ IsThrottled(last.msg))
    => IF last.pre # NoVal
       THEN last.res = "stale" /\ last.val = last.pre
       ELSE last.res = "raised"

\* C14: an entry that a fresh read found expired (and answered as absent) is
\* still returned by the stale read of the throttled fallback that follows, as
\* long as no insert evicted it.
ExpiredStaysAvailableToStaleRead ==
    (/\ last.op = "get_cached_data"
     /\ last.missed # NoVal
     /\ last.alone
     /\ IsThrottled(last.msg))
    => (last.res = "stale" /\ last.val = last.missed)

\* C15: the max_requests a check of the middleware uses is the limit the
\* configuration gives at that moment.
LiveLimitReload ==
    chk.op = "check" => chk.maxr = chk.cfg

\* C16 as stated: a check on a key with no timestamp newer than now -
\* window_seconds (never seen, fully pruned or reset) returns (True, 0) and leaves
\* exactly one timestamp recorded for the key, whatever the configured limit.
FirstRequestAlwaysAllowed ==
    (chk.op = "check" /\ chk.winBefore = 0)
    => (chk.allowed /\ chk.retry_after = 0 /\ chk.lenAfter = 1)

\* C16 amended: the same, for a limiter whose max_requests is at least 1.
FirstRequestAllowedUnderPositiveLimit ==
    (chk.op = "check" /\ chk.winBefore = 0 /\ chk.maxr >= 1)
    => (chk.allowed /\ chk.retry_after = 0 /\ chk.lenAfter = 1)

\* C16 witness: a key whose recorded timestamps had all left the window was
\* checked and allowed, and one timestamp is recorded for it.
FirstRequestAfterFullPrune ==
    /\ chk.op = "check"
    /\ chk.lenBefore >= 1
    /\ chk.winBefore = 0
    /\ chk.allowed
    /\ chk.lenAfter = 1

\* C17: a get_cached_recommendation(key) that directly follows
\* set_cached_recommendation(key, value) finds the entry, and returns exactly
\* value if the entry's age is below ttl.
FreshAfterInsert ==
    (last.op = "get" /\ ~last.force /\ last.afterPut # NoVal)
    => /\ last.seenPresent
       /\ last.seenAge < Ttl => (last.res = "hit" /\ last.val = last.afterPut)

\* C17 witness: the value was read back after time had passed, still below ttl.
ReadBackBeforeTtl ==
    /\ last.op = "get"
    /\ last.afterPut # NoVal
    /\ last.seenAge >= 1
    /\ last.res = "hit"
    /\ last.val = last.afterPut

\* C18: a rejection has status 429 and comes from a denied check; its body
\* carries the retry_after that check returned, the limiter's max_requests and
\* its window_seconds, and its Retry-After header carries the same number as
\* the body's retry_after.
RejectionConsistent ==
    (gate.class \in Limiters /\ ~gate.forwarded)
    => /\ gate.status = 429
       /\ gate.checked /\ ~gate.allowed
       /\ chk.op = "check" /\ ~chk.allowed /\ chk.lim = gate.class
       /\ gate.retry_after = chk.retry_after
       /\ gate.limit = chk.maxr
       /\ gate.limit = max_requests[gate.class]
       /\ gate.window = window_seconds
       /\ HeaderSeconds(gate.header) = gate.retry_after

\* C18 witness: a rejection under a positive limit whose retry hint is more
\* than one second.
RejectionWithLongHint ==
    /\ gate.status = 429
    /\ gate.limit >= 1
    /\ gate.retry_after >= 2
    /\ gate.header = StrInt(gate.retry_after)

\* C19: get_remaining_requests(key) returns max(0, max_requests - the number of
\* the key's timestamps inside the window), leaves the timestamps inside the
\* window as they were, and a check_rate_limit(key) made next is allowed exactly
\* if it would have been allowed without the query.
RemainingIsReadOnlyQuery ==
    [][(chk'.op = "remaining" /\ now' = now)
       => LET l == chk'.lim
              k == chk'.key
          IN /\ chk'.remAfter = Max(0, max_requests[l] - Live(requests[l], k, now))
             /\ LiveStamps(requests'[l], k, now) = LiveStamps(requests[l], k, now)
             /\ CheckRateLimit(requests'[l], max_requests[l], k, now).allowed
                = CheckRateLimit(requests[l], max_requests[l], k, now).allowed]_vars

\* C20: an insert stamps the entry with the time of the write: after the store
\* step of get_cached_data, and after set_cached_recommendation, the entry's
\* timestamp is the clock of that step.
InsertStampsWriteTime ==
    [][/\ \A t \in Threads :
            (pc[t] = "store" /\ pc'[t] = "idle")
            => Lookup(cache', call[t].key).ts = now
       /\ (last'.op = "put" /\ now' = now)
            => Lookup(cache', last'.key).ts = now]_vars

\* C21: get_cached_data reads the upstream exactly when force_refresh is set or
\* the fresh read misses: a hit returns without an upstream read, every other
\* outcome follows exactly one upstream read, and after a successful read the
\* cache holds the fetched value under the key and that value is returned.
UpstreamExactlyWhenNeeded ==
    /\ [](last.op = "get_cached_data"
          => /\ last.res = "hit"
                => (~last.force /\ last.upstream = 0 /\ last.seenPresent)
             /\ last.res \in {"stored", "stale", "raised"} => last.upstream = 1
             /\ last.res = "stored"
                => (HasKey(cache, last.key) /\ Lookup(cache, last.key).val = last.val))
    /\ [][\A t \in Threads :
            (pc[t] = "check" /\ pc'[t] # "check")
            => (pc'[t] = "fetch"
                <=> \/ call[t].force
                    \/ ~HasKey(cache, call[t].key)
                    \/ call[t].current_time - Lookup(cache, call[t].key).ts >= Ttl)]_vars

\* C21 witness: a call was answered from the cache without an upstream read.
ServedWithoutUpstream ==
    /\ last.op = "get_cached_data"
    /\ last.res = "hit"
    /\ ~last.force
    /\ last.upstream = 0
    /\ last.val # NoVal

\* C23 as stated: a denied check returns ceil(window_seconds - (now - oldest
\* remaining timestamp)) + 1.  The code truncates instead of rounding up, so the
\* two differ whenever the remaining time is not a whole number of seconds.
RetryHintIsCeilPlusOne ==
    (chk.op = "check" /\ ~chk.allowed /\ chk.lenAfter >= 1)
    => chk.retry_after = ((Window - chk.oldestAge + TicksPerSec - 1) \div TicksPerSec) + 1

\* C23 amended: a denied check that finds a timestamp returns
\* floor(window_seconds - (now - oldest remaining timestamp)) + 1, the remaining
\* time being positive; a denied check that finds none returns window_seconds.
RetryHintIsFloorPlusOne ==
    (chk.op = "check" /\ ~chk.allowed)
    => IF chk.lenAfter >= 1
       THEN /\ Window - chk.oldestAge > 0
            /\ (chk.retry_after - 1) * TicksPerSec <= Window - chk.oldestAge
            /\ Window - chk.oldestAge < chk.retry_after * TicksPerSec
       ELSE chk.retry_after = window_seconds

\* C23 witness: a check was denied a fraction of a second into the window of
\* two timestamps of different ages; floor + 1 and ceil + 1 differ there.
DeniedAtFractionalOffset ==
    /\ chk.op = "check"
    /\ ~chk.allowed
    /\ chk.lenAfter >= 2
    /\ chk.oldestAge >= 2
    /\ (Window - chk.oldestAge) % TicksPerSec # 0
    /\ chk.retry_after = ((Window - chk.oldestAge) \div TicksPerSec) + 1

\* the entries of c other than k's, in their order
Others(c, k) == SelectSeq(c, LAMBDA e : e.key # k)

\* the entries of c younger than ttl at time t, in their order
YoungerThanTtl(c, t) == SelectSeq(c, LAMBDA e : t - e.ts < Ttl)

\* C25: _periodic_cleanup changes nothing when less than cleanup_interval has
\* passed since the recorded sweep time; otherwise it records the time and the
\* sweep removes exactly the entries of age >= ttl, leaving the younger ones
\* (value, timestamp, order) as they were.  In AICacheService the wrapper runs
\* inside the lookup, which may further touch only the entry of the looked-up key.
ThrottledSweep ==
    [][/\ \A t \in Threads :
            /\ (pc[t] = "periodic" /\ pc'[t] = "interval")
               => /\ call'[t].cleanup_time = now
                  /\ cache' = cache
                  /\ last_cleanup' = last_cleanup
            /\ (pc[t] = "interval" /\ pc'[t] = "check")
               => /\ call[t].cleanup_time - last_cleanup < cleanup_interval
                  /\ cache' = cache
                  /\ last_cleanup' = last_cleanup
            /\ (pc[t] = "interval" /\ pc'[t] = "mark")
               => /\ call[t].cleanup_time - last_cleanup >= cleanup_interval
                  /\ cache' = cache
                  /\ last_cleanup' = last_cleanup
            /\ (pc[t] = "mark" /\ pc'[t] = "sweep")
               => /\ cache' = cache
                  /\ last_cleanup' = call[t].cleanup_time
            /\ (pc[t] = "sweep" /\ pc'[t] = "check")
               => /\ cache' = YoungerThanTtl(cache, now)
                  /\ last_cleanup' = last_cleanup
       /\ (/\ cls = AI /\ last'.op = "get" /\ ~last'.force
           /\ <<cache, last_cleanup, last>>' # <<cache, last_cleanup, last>>)
          => IF now - last_cleanup < cleanup_interval
             THEN /\ last_cleanup' = last_cleanup
                  /\ Others(cache', last'.key) = Others(cache, last'.key)
             ELSE /\ last_cleanup' = now
                  /\ \E swept \in now..now' :
                        Others(cache', last'.key)
                           = Others(YoungerThanTtl(cache, swept), last'.key)]_vars

\* C25 witness: a sweep found due inside a get_cached_recommendation ran after
\* the clock had moved on from the wrapper's read: the recorded time is the
\* earlier read, the expired entry of another key is gone and the entry of the
\* looked-up key, younger than ttl, was kept and returned.
SweepRemovedExpiredKeptYoung ==
    /\ cls = AI
    /\ last.op = "get"
    /\ last.res = "hit"
    /\ last.removed # {}
    /\ last_cleanup >= cleanup_interval
    /\ last_cleanup < now
    /\ HasKey(cache, last.key)

\* C26: reset(k) removes the window of k and of no other key, for every k, the
\* empty string included; reset() removes every window of the limiter; no
\* other operation removes a key's window.
ResetScope ==
    [][now' = now
       => /\ chk'.op = "reset"
             => /\ chk'.key \notin DOMAIN requests'[chk'.lim]
                /\ \A l \in Limiters : \A k \in DOMAIN requests[l] :
                      (l = chk'.lim /\ k = chk'.key)
                      \/ (k \in DOMAIN requests'[l] /\ requests'[l][k] = requests[l][k])
          /\ chk'.op = "reset_all"
             => /\ requests'[chk'.lim] = <<>>
                /\ \A l \in Limiters \ {chk'.lim} : requests'[l] = requests[l]
          /\ chk'.op \notin {"reset", "reset_all"}
             => \A l \in Limiters : DOMAIN requests[l] \subseteq DOMAIN requests'[l]]_vars

\* C29: after a check of a key was denied with retry_after r at time t, a check
\* of the same key at any time >= t + r, under the same max_requests >= 1 and
\* with no allowed check of the key in between, is allowed.
RetryHintSufficient ==
    [][(now' = now /\ gate'.checked /\ chk'.op = "check")
       => LET old == retry_due[chk'.lim][chk'.key]
          IN (old.set /\ old.maxr = chk'.maxr /\ chk'.maxr >= 1 /\ now >= old.at)
             => chk'.allowed]_vars

\* C29 witness: a check made exactly retry_after after a denial, under a limit
\* of two, was allowed while a younger timestamp of the key was still in the
\* window.
RetriedExactlyOnTime ==
    /\ chk.op = "check"
    /\ chk.allowed
    /\ chk.maxr >= 2
    /\ chk.winBefore >= 1
    /\ retry_due[chk.lim][chk.key].met = "at"

\* C24: one middleware evaluation checks at most one limiter, the AI limiter
\* whenever the path names the recommendation endpoint; it changes at most the
\* window of the request's own client key in that limiter, every other window
\* staying as it was; and it is denied only over a full window of its own key
\* in its own limiter.
ClassesAndKeysIsolated ==
    [][now' = now
       => /\ \A p \in Paths :
                (~Exempt(p) /\ Contains(p, PRecommendation)) => ClassOf(p) = "ai"
          /\ \A l \in Limiters :
                /\ requests'[l] # requests[l]
                   => (gate'.checked /\ gate'.class = l /\ chk'.lim = l)
                /\ DOMAIN requests'[l] \subseteq DOMAIN requests[l] \cup {gate'.key}
                /\ \A k \in DOMAIN requests[l] :
                      k # gate'.key
                      => (k \in DOMAIN requests'[l] /\ requests'[l][k] = requests[l][k])
          /\ (gate'.checked /\ ~gate'.allowed)
             => /\ chk'.lim = gate'.class /\ chk'.key = gate'.key
                /\ Live(requests[gate'.class], gate'.key, now) >= chk'.maxr]_vars

\* C24 witness: a client whose AI budget is used up was served an IoT request,
\* while another client has a window of its own in the IoT limiter.
IotServedWhileAiExhausted ==
    /\ gate.class = "iot"
    /\ gate.checked
    /\ gate.allowed
    /\ max_requests["ai"] >= 1
    /\ Live(requests["ai"], gate.key, now) >= max_requests["ai"]
    /\ \E k \in DOMAIN requests["iot"] : k # gate.key /\ requests["iot"][k] # <<>>

\* C22: a thread inside the upstream call (the Sheets read of get_cached_data,
\* the LLM generation of get_personalized_recommendation) holds neither the
\* cache's lock nor a limiter's lock.
NoLockAcrossUpstream ==
    \A t \in Threads :
        pc[t] \in {"fetch", "generate"} => (lock.owner # t /\ lock.limiter # t)

\* C22 witness: while one thread is inside the Sheets read, the other is
\* inside the cache's lock about to insert what it read, having begun later.
OtherThreadInsideLockDuringFetch ==
    \E t \in Threads, u \in Threads :
        /\ t # u
        /\ pc[t] = "fetch"
        /\ pc[u] = "store"
        /\ Holding(u)
        /\ call[u].current_time > call[t].current_time

\* C28 as stated: under any interleaving of get_cached_data calls, the timestamp
\* stored for a key never decreases, and a call does not overwrite the entry
\* that a call begun later has stored.
NewerNeverReplacedByOlder ==
    [][/\ \A k \in ConcKeys :
            (HasKey(cache, k) /\ HasKey(cache', k))
            => Lookup(cache', k).ts >= Lookup(cache, k).ts
       /\ \A t \in Threads :
            (pc[t] = "store" /\ pc'[t] = "idle" /\ HasKey(cache, call[t].key)
             /\ Lookup(cache, call[t].key).ts > call[t].current_time)
            => Lookup(cache', call[t].key) = Lookup(cache, call[t].key)]_vars

\* C28 amended: the last insert to run under the lock wins: right after the
\* insert of a get_cached_data call the key's entry holds the value that call
\* read and the time that call began, whatever entry it replaced.
LastInsertWins ==
    [][\A t \in Threads :
          (pc[t] = "store" /\ pc'[t] = "idle")
          => /\ HasKey(cache', call[t].key)
             /\ Lookup(cache', call[t].key).val = call[t].raw
             /\ Lookup(cache', call[t].key).ts = call[t].current_time]_vars

\* C28 witness: an insert replaced the entry of a call begun later by the value
\* of a call begun earlier.
OlderReplacedNewer ==
    /\ last.op = "get_cached_data"
    /\ last.res = "stored"
    /\ last.regressed
    /\ HasKey(cache, last.key)
    /\ Lookup(cache, last.key).val = last.val

\* C30: at most one upstream read for a key is in flight at any time.
AtMostOneUpstreamReadPerKey ==
    \A t \in Threads, u \in Threads :
        (t # u /\ pc[t] = "fetch" /\ pc[u] = "fetch") => call[t].key # call[u].key

\* thread t is inside an operation or holds a lock
Busy(t) == pc[t] # "idle" \/ lock.owner = t \/ lock.limiter = t

\* C27: under fair scheduling every operation that a thread has begun returns,
\* and every lock a thread holds is released; this includes the read of
\* AICacheService whose inline sweep takes the cache's lock a second time.
EveryOperationTerminates ==
    \A t \in Threads : Busy(t) ~> ~Busy(t)

\* C27 witness: a thread inside get_cached_recommendation holds the cache's
\* lock twice, for the inline sweep, while the other thread is inside the
\* limiter's lock.
InlineSweepHoldsLockTwice ==
    \E t \in Threads, u \in Threads :
        /\ t # u
        /\ cls = AI
        /\ lock.owner = t
        /\ lock.depth = 2
        /\ pc[t] = "rec_sweep"
        /\ last_cleanup = now
        /\ lock.limiter = u

\* ------------------------------------------------------------------ claims
\* C1: get_cached_data(force_refresh=False) on a key whose entry v1 is older than
\* ttl when the call begins, with the upstream read raising a throttling error
\* (429 / Quota exceeded / rate limit) and no other thread changing the cache
\* meanwhile, returns v1 instead of raising.
StaleFallbackOnThrottled ==
    (/\ last.op = "get_cached_data"
     /\ ~last.force
     /\ last.pre # NoVal
     /\ last.alone
     /\ IsThrottled(last.msg))
    => (last.res = "stale" /\ last.val = last.pre)

\* C2: the cache never holds more than max_size entries.
CapacityInvariant == Len(cache) <= max_size

\* C2 witness: an insert into a full cache evicted an entry and left it full.
CapacityEvictionDone ==
    /\ last.res = "stored"
    /\ last.lenBefore = max_size
    /\ last.removed # {}
    /\ Len(cache) = max_size

\* C3: a fresh read returns a cached value iff the key has an entry whose age
\* on the clock, at the moment of the read, is below ttl.
FreshReadExact ==
    (last.op \in {"get", "get_cached_data"} /\ ~last.force /\ last.res \in {"hit", "miss"})
    => (last.res = "hit" <=> (last.seenPresent /\ last.seenAge < Ttl))

\* C5: an upstream error that is not a throttling error is re-raised by
\* get_cached_data: no cached value is returned, and the upstream was read once.
HardErrorsNotMasked ==
    (last.op = "get_cached_data" /\ last.msg # NoMsg /\ ~IsThrottled(last.msg))
    => (last.res = "raised" /\ last.val = NoVal /\ last.upstream = 1)

\* C5 witness: a hard error was raised although the key has an entry in the cache.
HardErrorRaisedOverEntry ==
    /\ last.op = "get_cached_data"
    /\ last.res = "raised"
    /\ last.msg = MsgTimeout
    /\ HasKey(cache, last.key)

\* C8: an insert that evicts, evicts the key least recently touched by a get hit
\* or a put (a put that overwrites included).
EvictsLeastRecentlyTouched ==
    (last.res = "stored" /\ last.removed # {}) => last.removed = {last.lru}

\* C9: an insert removes exactly one other entry iff its key is new and the cache
\* holds max_size entries; otherwise it removes none.
EvictsOnlyForNewKeyAtCapacity ==
    last.res = "stored"
    => /\ Cardinality(last.removed) <= 1
       /\ (last.removed # {}) <=> (~last.existed /\ last.lenBefore = max_size)

====
